---- MODULE Spec2Model ----
(***************************************************************************)
(* Model of update_icon.py: a script that embeds a base64 payload as a     *)
(* data URI into two placeholder strings of Icons.jsx.                     *)
(*                                                                         *)
(* Text is a sequence of one-character strings.  A file is a record        *)
(* [exists, data]; data is what is stored on disk.  The script is a        *)
(* straight-line program, modelled with a program counter; the file system *)
(* outlives a run, so the script can be run again on what it left behind.  *)
(***************************************************************************)
EXTENDS Integers, Sequences, FiniteSets, TLC

VARIABLES
    fs,           \* the file system: path -> [exists, data]
    pc,           \* position of the script
    b64_content,  \* line 16
    data_uri,     \* line 18
    content,      \* line 21
    new_content,  \* lines 30-31
    stdout,       \* messages printed by the current run
    status,       \* exit status of the current run (meaningful when pc = "done")
    opens,        \* files opened by the current run, as <<path, mode>>
    trace,        \* steps executed by the current run
    run,          \* number of the current run (1 = first)
    before        \* fs at the start of the current run

vars == <<fs, pc, b64_content, data_uri, content, new_content, stdout, status,
          opens, trace, run, before>>

----------------------------------------------------------------------------
(* Bounds *)

MaxFrags == 3     \* a source file is made of at most MaxFrags fragments
MaxRuns == 2      \* the script is run at most MaxRuns times in succession

----------------------------------------------------------------------------
(* Paths, messages *)

icons_path == "/Users/isaiahcalvo/Desktop/Survey/src/Icons.jsx"
b64_path == "/Users/isaiahcalvo/Desktop/Survey/temp_highlighter_b64.txt"
Paths == {icons_path, b64_path}

MsgIconsNotFound == "Error: " \o icons_path \o " not found"
MsgB64NotFound == "Error: " \o b64_path \o " not found"
MsgWarning == "Warning: No changes made. Targets might not match."
MsgSuccess == "Successfully updated Icons.jsx with base64 icon."

----------------------------------------------------------------------------
(* Text *)

CR == "\r"
LF == "\n"

\* str.strip() without argument removes the characters c with c.isspace();
\* these are the ASCII ones that TLA+ can write.
Whitespace == {" ", "\t", "\n", "\r", "\f"}

Range(s) == {s[i] : i \in 1..Len(s)}

\* s[i..] starts with old
IsAt(s, old, i) ==
    /\ i + Len(old) - 1 <= Len(s)
    /\ \A k \in 1..Len(old) : s[i + k - 1] = old[k]

\* the first position >= i where old occurs in s, or Len(s) + 1
Find(s, old, i) ==
    LET at == {j \in i..Len(s) : IsAt(s, old, j)} IN
    IF at = {} THEN Len(s) + 1
    ELSE CHOOSE j \in at : \A k \in at : j <= k

\* str.replace(old, new) for non-empty old: occurrences are taken from left
\* to right and do not overlap; the replacement is not rescanned.
RECURSIVE ReplaceFrom(_, _, _, _)
ReplaceFrom(s, old, new, i) ==
    LET j == Find(s, old, i) IN
    IF j > Len(s) THEN SubSeq(s, i, Len(s))
    ELSE SubSeq(s, i, j - 1) \o new \o ReplaceFrom(s, old, new, j + Len(old))

\* str.replace(old, new, 1): only the first occurrence
ReplaceFirst(s, old, new) ==
    LET j == Find(s, old, 1) IN
    IF j > Len(s) THEN s
    ELSE SubSeq(s, 1, j - 1) \o new \o SubSeq(s, j + Len(old), Len(s))

Replace(s, old, new) == ReplaceFrom(s, old, new, 1)

\* str.strip()
RECURSIVE LStrip(_)
LStrip(s) ==
    IF s # <<>> /\ Head(s) \in Whitespace THEN LStrip(Tail(s)) ELSE s

RECURSIVE RStrip(_)
RStrip(s) ==
    IF s # <<>> /\ s[Len(s)] \in Whitespace
    THEN RStrip(SubSeq(s, 1, Len(s) - 1)) ELSE s

\* str.lstrip() in place of str.strip()
StripLeftOnly(s) == LStrip(s)

Strip(s) == RStrip(LStrip(s))

\* open(path, 'r').read(): text mode with newline=None translates "\r\n" and
\* a lone "\r" to "\n".
ReadText(data) ==
    LET n == Len(data)
        crlf(i) == data[i] = CR /\ i < n /\ data[i + 1] = LF
        kept == SelectSeq([i \in 1..n |-> i], LAMBDA i : ~crlf(i))
    IN  [k \in 1..Len(kept) |->
            IF data[kept[k]] = CR THEN LF ELSE data[kept[k]]]

\* open(path, 'w').write(text): text mode with newline=None writes "\n" as
\* os.linesep, which is "\n" on the system the paths belong to.
WriteText(text) == text

----------------------------------------------------------------------------
(* The strings of the script *)

MaskKey == <<"m","a","s","k","I","m","a","g","e">>
WebkitKey == <<"W","e","b","k","i","t","M","a","s","k","I","m","a","g","e">>
UrlOpen == <<":"," ","'","u","r","l","(","\"">>
UrlClose == <<"\"",")","'">>
IconUrl == <<"/","h","i","g","h","l","i","g","h","t","e","r","-","i","c","o","n",
             ".","p","n","g">>
DataPrefix == <<"d","a","t","a",":","i","m","a","g","e","/","p","n","g",";",
                "b","a","s","e","6","4",",">>

DataUri(b64) == DataPrefix \o b64

\* the mask target written with a capital M
target_mask_capital ==
    <<"M","a","s","k","I","m","a","g","e">> \o UrlOpen \o IconUrl \o UrlClose

target_mask == MaskKey \o UrlOpen \o IconUrl \o UrlClose
target_webkit == WebkitKey \o UrlOpen \o IconUrl \o UrlClose

replacement_mask(uri) == MaskKey \o UrlOpen \o uri \o UrlClose
\* the second replacement written without the payload
replacement_webkit_bare(uri) == WebkitKey \o UrlOpen \o DataPrefix \o UrlClose

replacement_webkit(uri) == WebkitKey \o UrlOpen \o uri \o UrlClose

----------------------------------------------------------------------------
(* Inputs *)

\* Contents of the payload file.
PayloadFiles ==
    { <<>>,
      <<" ", LF>>,
      <<" ", " ", "a","b","c","d","1","2","3","4","=","=", LF>>,
      <<"A","+", CR, LF, "/","9", CR, LF>>,
      <<"a"," ","b">>,
      target_mask,
      <<"\t">> \o target_webkit,
      MaskKey \o UrlOpen \o IconUrl }

\* The data URI the script builds from a payload file.
UriOf(data) == DataUri(Strip(ReadText(data)))

\* Pieces a source file is made of, given the payload file beside it.
Fragments(data) ==
    { target_mask,
      target_webkit,
      replacement_mask(UriOf(data)),
      <<CR, LF, "W","e","b","k","i","t">> }

RECURSIVE Concat(_)
Concat(ss) == IF ss = <<>> THEN <<>> ELSE Head(ss) \o Concat(Tail(ss))

SourceFiles(data) ==
    { Concat(ss) : ss \in UNION {[1..n -> Fragments(data)] : n \in 0..MaxFrags} }

NoFile == [exists |-> FALSE, data |-> <<>>]
File(data) == [exists |-> TRUE, data |-> data]

----------------------------------------------------------------------------
(* The script *)

Init ==
    /\ \E p \in PayloadFiles :
         \E b \in {NoFile, File(p)} :
           \E i \in {NoFile} \cup {File(s) : s \in SourceFiles(p)} :
             fs = [x \in Paths |-> IF x = icons_path THEN i ELSE b]
    /\ pc = "check_icons"
    /\ b64_content = <<>>
    /\ data_uri = <<>>
    /\ content = <<>>
    /\ new_content = <<>>
    /\ stdout = <<>>
    /\ status = 0
    /\ opens = <<>>
    /\ trace = <<>>
    /\ run = 1
    /\ before = fs

\* lines 7-9 without the exit
CheckIcons_NoExit ==
    /\ pc = "check_icons"
    /\ trace' = Append(trace, "check_icons")
    /\ IF ~fs[icons_path].exists
       THEN stdout' = Append(stdout, MsgIconsNotFound)
       ELSE UNCHANGED stdout
    /\ pc' = "check_b64"
    /\ UNCHANGED <<fs, b64_content, data_uri, content, new_content, status,
                   opens, run, before>>

\* lines 7-9 followed at once by line 15: the second check left out
CheckIcons_SkipB64 ==
    /\ pc = "check_icons"
    /\ trace' = Append(trace, "check_icons")
    /\ IF ~fs[icons_path].exists
       THEN /\ stdout' = Append(stdout, MsgIconsNotFound)
            /\ status' = 1
            /\ pc' = "done"
       ELSE /\ pc' = "load_payload"
            /\ UNCHANGED <<stdout, status>>
    /\ UNCHANGED <<fs, b64_content, data_uri, content, new_content, opens, run,
                   before>>

\* lines 7-9
CheckIcons ==
    /\ pc = "check_icons"
    /\ trace' = Append(trace, "check_icons")
    /\ IF ~fs[icons_path].exists
       THEN /\ stdout' = Append(stdout, MsgIconsNotFound)
            /\ status' = 1
            /\ pc' = "done"
       ELSE /\ pc' = "check_b64"
            /\ UNCHANGED <<stdout, status>>
    /\ UNCHANGED <<fs, b64_content, data_uri, content, new_content, opens, run,
                   before>>

\* lines 11-13 with exit(0)
CheckB64_ExitZero ==
    /\ pc = "check_b64"
    /\ trace' = Append(trace, "check_b64")
    /\ IF ~fs[b64_path].exists
       THEN /\ stdout' = Append(stdout, MsgB64NotFound)
            /\ status' = 0
            /\ pc' = "done"
       ELSE /\ pc' = "load_payload"
            /\ UNCHANGED <<stdout, status>>
    /\ UNCHANGED <<fs, b64_content, data_uri, content, new_content, opens, run,
                   before>>

\* lines 11-13
CheckB64 ==
    /\ pc = "check_b64"
    /\ trace' = Append(trace, "check_b64")
    /\ IF ~fs[b64_path].exists
       THEN /\ stdout' = Append(stdout, MsgB64NotFound)
            /\ status' = 1
            /\ pc' = "done"
       ELSE /\ pc' = "load_payload"
            /\ UNCHANGED <<stdout, status>>
    /\ UNCHANGED <<fs, b64_content, data_uri, content, new_content, opens, run,
                   before>>

\* lines 15-16
LoadPayload ==
    /\ pc = "load_payload"
    /\ trace' = Append(trace, "load_payload")
    /\ opens' = Append(opens, <<b64_path, "r">>)
    /\ b64_content' = Strip(ReadText(fs[b64_path].data))
    /\ pc' = "build_uri"
    /\ UNCHANGED <<fs, data_uri, content, new_content, stdout, status, run,
                   before>>

\* line 18
BuildUri ==
    /\ pc = "build_uri"
    /\ trace' = Append(trace, "build_uri")
    /\ data_uri' = DataUri(b64_content)
    /\ pc' = "read_source"
    /\ UNCHANGED <<fs, b64_content, content, new_content, stdout, status, opens,
                   run, before>>

\* lines 20-21
ReadSource ==
    /\ pc = "read_source"
    /\ trace' = Append(trace, "read_source")
    /\ opens' = Append(opens, <<icons_path, "r">>)
    /\ content' = ReadText(fs[icons_path].data)
    /\ pc' = "replace_mask"
    /\ UNCHANGED <<fs, b64_content, data_uri, new_content, stdout, status, run,
                   before>>

\* line 30, with the strings of lines 24 and 27
ReplaceMask ==
    /\ pc = "replace_mask"
    /\ trace' = Append(trace, "replace_mask")
    /\ new_content' = Replace(content, target_mask, replacement_mask(data_uri))
    /\ pc' = "replace_webkit"
    /\ UNCHANGED <<fs, b64_content, data_uri, content, stdout, status, opens,
                   run, before>>

\* line 31, with the strings of lines 25 and 28
ReplaceWebkit ==
    /\ pc = "replace_webkit"
    /\ trace' = Append(trace, "replace_webkit")
    /\ new_content' =
         Replace(new_content, target_webkit, replacement_webkit(data_uri))
    /\ pc' = "report"
    /\ UNCHANGED <<fs, b64_content, data_uri, content, stdout, status, opens,
                   run, before>>

\* lines 33-38 without the comparison: the file is always written
Report_AlwaysWrite ==
    /\ pc = "report"
    /\ trace' = Append(trace, "write")
    /\ opens' = Append(opens, <<icons_path, "w">>)
    /\ fs' = [fs EXCEPT ![icons_path] = File(WriteText(new_content))]
    /\ stdout' = Append(stdout, MsgSuccess)
    /\ status' = 0
    /\ pc' = "done"
    /\ UNCHANGED <<b64_content, data_uri, content, new_content, run, before>>

\* lines 33-38 with the comparison inverted
Report_Inverted ==
    /\ pc = "report"
    /\ IF content # new_content
       THEN /\ trace' = Append(trace, "warn")
            /\ stdout' = Append(stdout, MsgWarning)
            /\ UNCHANGED <<fs, opens>>
       ELSE /\ trace' = Append(trace, "write")
            /\ opens' = Append(opens, <<icons_path, "w">>)
            /\ fs' = [fs EXCEPT ![icons_path] = File(WriteText(new_content))]
            /\ stdout' = Append(stdout, MsgSuccess)
    /\ status' = 0
    /\ pc' = "done"
    /\ UNCHANGED <<b64_content, data_uri, content, new_content, run, before>>

\* lines 33-38 writing content in place of new_content
Report_WritesContent ==
    /\ pc = "report"
    /\ IF content = new_content
       THEN /\ trace' = Append(trace, "warn")
            /\ stdout' = Append(stdout, MsgWarning)
            /\ UNCHANGED <<fs, opens>>
       ELSE /\ trace' = Append(trace, "write")
            /\ opens' = Append(opens, <<icons_path, "w">>)
            /\ fs' = [fs EXCEPT ![icons_path] = File(WriteText(content))]
            /\ stdout' = Append(stdout, MsgSuccess)
    /\ status' = 0
    /\ pc' = "done"
    /\ UNCHANGED <<b64_content, data_uri, content, new_content, run, before>>

\* lines 33-38, and the end of the script
Report ==
    /\ pc = "report"
    /\ IF content = new_content
       THEN /\ trace' = Append(trace, "warn")
            /\ stdout' = Append(stdout, MsgWarning)
            /\ UNCHANGED <<fs, opens>>
       ELSE /\ trace' = Append(trace, "write")
            /\ opens' = Append(opens, <<icons_path, "w">>)
            /\ fs' = [fs EXCEPT ![icons_path] = File(WriteText(new_content))]
            /\ stdout' = Append(stdout, MsgSuccess)
    /\ status' = 0
    /\ pc' = "done"
    /\ UNCHANGED <<b64_content, data_uri, content, new_content, run, before>>

\* the script is started again on the files the previous run left
RunAgain ==
    /\ pc = "done"
    /\ run < MaxRuns
    /\ run' = run + 1
    /\ before' = fs
    /\ pc' = "check_icons"
    /\ b64_content' = <<>>
    /\ data_uri' = <<>>
    /\ content' = <<>>
    /\ new_content' = <<>>
    /\ stdout' = <<>>
    /\ status' = 0
    /\ opens' = <<>>
    /\ trace' = <<>>
    /\ UNCHANGED fs

Next ==
    \/ CheckIcons
    \/ CheckB64
    \/ LoadPayload
    \/ BuildUri
    \/ ReadSource
    \/ ReplaceMask
    \/ ReplaceWebkit
    \/ Report
    \/ RunAgain

Spec == Init /\ [][Next]_vars

----------------------------------------------------------------------------
(* Vocabulary of the properties *)

Contains(s, sub) == \E j \in 1..Len(s) : IsAt(s, sub, j)
Count(s, sub) == Cardinality({j \in 1..Len(s) : IsAt(s, sub, j)})

Base64Alphabet ==
    Range(<<"A","B","C","D","E","F","G","H","I","J","K","L","M","N","O","P","Q",
            "R","S","T","U","V","W","X","Y","Z","a","b","c","d","e","f","g","h",
            "i","j","k","l","m","n","o","p","q","r","s","t","u","v","w","x","y",
            "z","0","1","2","3","4","5","6","7","8","9","+","/","=">>)

IsBase64(s) == Range(s) \subseteq Base64Alphabet

\* the two replacement strings, spelled out for a payload
ExpectedMask(b64) ==
    <<"m","a","s","k","I","m","a","g","e",":"," ","'","u","r","l","(","\"">>
    \o DataPrefix \o b64 \o <<"\"",")","'">>
ExpectedWebkit(b64) ==
    <<"W","e","b","k","i","t","M","a","s","k","I","m","a","g","e",":"," ","'",
      "u","r","l","(","\"">>
    \o DataPrefix \o b64 \o <<"\"",")","'">>

HasTarget(s) == Contains(s, target_mask) \/ Contains(s, target_webkit)

\* neither replacement string for this payload contains a target
CleanPayload(b64) ==
    /\ ~HasTarget(ExpectedMask(b64))
    /\ ~HasTarget(ExpectedWebkit(b64))

\* both files existed when the current run started
PassedChecks == before[icons_path].exists /\ before[b64_path].exists

Wrote == \E k \in 1..Len(opens) : opens[k] = <<icons_path, "w">>

\* the pieces of s outside the occurrences of sub, in order
RECURSIVE Outside(_, _, _)
Outside(s, sub, i) ==
    LET j == Find(s, sub, i) IN
    IF j > Len(s) THEN <<SubSeq(s, i, Len(s))>>
    ELSE <<SubSeq(s, i, j - 1)>> \o Outside(s, sub, j + Len(sub))

----------------------------------------------------------------------------
(* C1: a run that starts with a missing icons path or a missing payload    *)
(* path opens no file and leaves the file system as it was; it ends with   *)
(* status 1 and exactly the error message of the first missing path.       *)
C1_MissingFileShortCircuit ==
    ~PassedChecks =>
        /\ opens = <<>>
        /\ fs = before
        /\ pc = "done" =>
             /\ status = 1
             /\ stdout = <<IF ~before[icons_path].exists
                           THEN MsgIconsNotFound ELSE MsgB64NotFound>>

C1_Witness ==
    /\ pc = "done"
    /\ ~before[icons_path].exists
    /\ ~before[b64_path].exists
    /\ stdout = <<MsgIconsNotFound>>

----------------------------------------------------------------------------
\* what the payload file holds once read and stripped
PayloadOnDisk == Strip(ReadText(fs[b64_path].data))

SecondRunIsNoOp ==
    /\ fs[icons_path].data = before[icons_path].data
    /\ PassedChecks => (stdout = <<MsgWarning>> /\ ~Wrote)

(* C2 as stated: for every source text and every payload, a run that       *)
(* follows another leaves the source file as the previous run left it, and *)
(* takes the warning path without writing.                                 *)
C2_IdempotentAnyPayload ==
    (run >= 2 /\ pc = "done") => SecondRunIsNoOp

(* C2, amended: the same, for every payload whose two replacement strings  *)
(* contain neither target; every payload over the base64 alphabet is such  *)
(* a payload.                                                              *)
C2_IdempotentCleanPayload ==
    (run >= 2 /\ pc = "done") =>
        /\ IsBase64(PayloadOnDisk) => CleanPayload(PayloadOnDisk)
        /\ CleanPayload(PayloadOnDisk) => SecondRunIsNoOp

C2_Witness ==
    /\ run = 2
    /\ pc = "done"
    /\ stdout = <<MsgWarning>>
    /\ b64_content # <<>>
    /\ CleanPayload(b64_content)
    /\ Contains(content, ExpectedMask(b64_content))
    /\ Contains(content, ExpectedWebkit(b64_content))

----------------------------------------------------------------------------
SubstitutionDone == pc \in {"report", "done"} /\ PassedChecks

ExactlyTwoSites ==
    /\ Count(new_content, target_mask) = 0
    /\ Count(new_content, target_webkit) = 0
    /\ Count(new_content, ExpectedMask(b64_content)) = 1
    /\ Count(new_content, ExpectedWebkit(b64_content)) = 1

(* C3 as stated: when the source text holds each target exactly once, the  *)
(* substituted text holds no target and exactly one occurrence of each     *)
(* replacement, both built on the same data URI.                           *)
C3_TwoSiteAnyInput ==
    ( /\ SubstitutionDone
      /\ Count(content, target_mask) = 1
      /\ Count(content, target_webkit) = 1 ) => ExactlyTwoSites

(* C3, amended: the same, when the payload is over the base64 alphabet and *)
(* the source text does not already hold a replacement string.             *)
C3_TwoSiteBase64 ==
    ( /\ SubstitutionDone
      /\ Count(content, target_mask) = 1
      /\ Count(content, target_webkit) = 1
      /\ IsBase64(b64_content)
      /\ ~Contains(content, ExpectedMask(b64_content))
      /\ ~Contains(content, ExpectedWebkit(b64_content)) ) => ExactlyTwoSites

C3_Witness ==
    /\ pc = "done"
    /\ PassedChecks
    /\ Count(content, target_mask) = 1
    /\ Count(content, target_webkit) = 1
    /\ IsBase64(b64_content)
    /\ b64_content # <<>>
    /\ ~Contains(content, ExpectedMask(b64_content))
    /\ Len(content) > Len(target_mask) + Len(target_webkit)
    /\ ExactlyTwoSites

----------------------------------------------------------------------------
\* out is in with its n >= 1 occurrences of target replaced by repl
AllReplaced(in, out, target, repl) ==
    Count(in, target) >= 1 =>
        /\ Count(out, target) = 0
        /\ Count(out, repl) = Count(in, target)
        /\ Outside(out, repl, 1) = Outside(in, target, 1)

(* C4 as stated: each of the two replace calls turns a text with n >= 1    *)
(* occurrences of its target into a text with n occurrences of its         *)
(* replacement and none of the target, the text outside them unchanged.    *)
C4_AllOccurrencesAnyInput ==
    [][ /\ pc = "replace_mask" =>
             AllReplaced(content, new_content', target_mask,
                         ExpectedMask(b64_content))
        /\ pc = "replace_webkit" =>
             AllReplaced(new_content, new_content', target_webkit,
                         ExpectedWebkit(b64_content)) ]_vars

(* C4, amended: the same, when the payload is over the base64 alphabet and *)
(* the text given to the replace call does not already hold that call's    *)
(* replacement string.                                                     *)
C4_AllOccurrencesBase64 ==
    [][ /\ ( /\ pc = "replace_mask"
             /\ IsBase64(b64_content)
             /\ ~Contains(content, ExpectedMask(b64_content)) ) =>
             AllReplaced(content, new_content', target_mask,
                         ExpectedMask(b64_content))
        /\ ( /\ pc = "replace_webkit"
             /\ IsBase64(b64_content)
             /\ ~Contains(new_content, ExpectedWebkit(b64_content)) ) =>
             AllReplaced(new_content, new_content', target_webkit,
                         ExpectedWebkit(b64_content)) ]_vars

C4_Witness ==
    /\ pc = "report"
    /\ IsBase64(b64_content)
    /\ ~Contains(content, ExpectedMask(b64_content))
    /\ Count(content, target_mask) + Count(content, target_webkit) = 3
    /\ Count(content, target_mask) >= 1
    /\ Count(content, target_webkit) >= 1
    /\ Count(new_content, ExpectedMask(b64_content))
         + Count(new_content, ExpectedWebkit(b64_content)) = 3

----------------------------------------------------------------------------
\* the source text of the current run, as the script reads it
SourceText == ReadText(before[icons_path].data)

(* C5: when both files exist and the source text holds neither target, the *)
(* substituted text equals the text read, and the run ends with the        *)
(* warning as its only message, without having opened the source file for  *)
(* writing and with the file system as it was.                             *)
C5_UnchangedContent ==
    (SubstitutionDone /\ ~HasTarget(SourceText)) =>
        /\ new_content = content
        /\ pc = "done" =>
             /\ stdout = <<MsgWarning>>
             /\ ~Wrote
             /\ fs = before

C5_Witness ==
    /\ pc = "done"
    /\ PassedChecks
    /\ ~HasTarget(content)
    /\ Contains(content, <<"W","e","b","k","i","t">>)
    /\ Contains(fs[icons_path].data, <<CR, LF>>)
    /\ stdout = <<MsgWarning>>

----------------------------------------------------------------------------
(* C6: a run prints nothing before it ends and has printed exactly one     *)
(* message when it ends: with both files present the warning or the        *)
(* success message and status 0, otherwise an error message and status 1.  *)
C6_ExitAndMessage ==
    /\ pc # "done" => stdout = <<>>
    /\ pc = "done" =>
         /\ Len(stdout) = 1
         /\ IF PassedChecks
            THEN status = 0 /\ stdout[1] \in {MsgWarning, MsgSuccess}
            ELSE status = 1 /\ stdout[1] \in {MsgIconsNotFound, MsgB64NotFound}

C6_Witness ==
    /\ pc = "done"
    /\ PassedChecks
    /\ status = 0
    /\ stdout = <<MsgSuccess>>

----------------------------------------------------------------------------
UriBuilt ==
    /\ PassedChecks
    /\ pc \in {"read_source", "replace_mask", "replace_webkit", "report", "done"}

\* t is s without its leading and trailing whitespace, the rest verbatim
IsTrimOf(t, s) ==
    /\ t # <<>> => (t[1] \notin Whitespace /\ t[Len(t)] \notin Whitespace)
    /\ \E i \in 1..(Len(s) + 1) :
         /\ \A k \in 1..(i - 1) : s[k] \in Whitespace
         /\ \E j \in (i - 1)..Len(s) :
              /\ \A k \in (j + 1)..Len(s) : s[k] \in Whitespace
              /\ t = SubSeq(s, i, j)

UriIsPrefixPlusTrimOf(s) ==
    /\ Len(data_uri) >= Len(DataPrefix)
    /\ SubSeq(data_uri, 1, Len(DataPrefix)) = DataPrefix
    /\ IsTrimOf(SubSeq(data_uri, Len(DataPrefix) + 1, Len(data_uri)), s)
    /\ Range(s) \subseteq Whitespace => data_uri = DataPrefix

(* C7 as stated: the data URI is the prefix followed by the content of the *)
(* payload file without its leading and trailing whitespace, every         *)
(* interior character kept.                                                *)
C7_UriFromFileContent ==
    UriBuilt => UriIsPrefixPlusTrimOf(fs[b64_path].data)

(* C7, amended: the data URI is the prefix followed by the text read from  *)
(* the payload file (each "\r\n" and each lone "\r" of the file read as    *)
(* "\n") without its leading and trailing whitespace, every interior       *)
(* character of that text kept.                                            *)
C7_UriFromTextRead ==
    UriBuilt => UriIsPrefixPlusTrimOf(ReadText(fs[b64_path].data))

C7_Witness ==
    /\ pc = "done"
    /\ fs[b64_path].data =
         <<" ", " ", "a","b","c","d","1","2","3","4","=","=", LF>>
    /\ data_uri = DataPrefix \o <<"a","b","c","d","1","2","3","4","=","=">>

----------------------------------------------------------------------------
IsPrefix(a, b) == Len(a) <= Len(b) /\ a = SubSeq(b, 1, Len(a))

StepsUntil(last) ==
    <<"check_icons", "check_b64", "load_payload", "build_uri", "read_source",
      "replace_mask", "replace_webkit", last>>

OpensInOrder ==
    <<<<b64_path, "r">>, <<icons_path, "r">>, <<icons_path, "w">>>>

(* C8: the steps of a run are taken in the fixed order, the run stops at   *)
(* the first failed check, the files are opened in the order payload for   *)
(* reading, source for reading, source for writing (the last at most once  *)
(* and only as the final step), and the payload file is never changed.     *)
C8_StepOrder ==
    /\ \E last \in {"warn", "write"} : IsPrefix(trace, StepsUntil(last))
    /\ ~before[icons_path].exists => IsPrefix(trace, <<"check_icons">>)
    /\ ~before[b64_path].exists => IsPrefix(trace, <<"check_icons", "check_b64">>)
    /\ pc = "done" <=>
         \/ Len(trace) = 8
         \/ Len(trace) = 1 /\ ~before[icons_path].exists
         \/ Len(trace) = 2 /\ ~before[b64_path].exists
    /\ pc # "done" =>
         pc = (IF Len(trace) = 7 THEN "report"
               ELSE StepsUntil("report")[Len(trace) + 1])
    /\ IsPrefix(opens, OpensInOrder)
    /\ Len(opens) = (IF Len(trace) < 3 THEN 0
                     ELSE IF Len(trace) < 5 THEN 1
                     ELSE IF Len(trace) = 8 /\ trace[8] = "write" THEN 3
                     ELSE 2)
    /\ fs[b64_path] = before[b64_path]
    /\ fs[icons_path] # before[icons_path] => Wrote

C8_Witness ==
    /\ pc = "done"
    /\ trace = StepsUntil("write")
    /\ opens = OpensInOrder
    /\ fs[icons_path] # before[icons_path]

----------------------------------------------------------------------------
----------------------------------------------------------------------------
(* C10: in a run with both files present, the source file is written and   *)
(* the success message printed exactly when the source text holds a        *)
(* target; a text that holds a target always differs from its              *)
(* substitution, whatever the payload; what is written is the substituted  *)
(* text.                                                                   *)
C10_WriteIffPresent ==
    /\ (SubstitutionDone /\ HasTarget(content)) => new_content # content
    /\ (PassedChecks /\ pc = "done") =>
         /\ Wrote <=> HasTarget(content)
         /\ stdout = <<MsgSuccess>> <=> HasTarget(content)
         /\ HasTarget(content) => stdout # <<MsgWarning>>
         /\ Wrote => fs[icons_path].data = new_content
         /\ ~Wrote => fs = before

C10_Witness ==
    /\ pc = "done"
    /\ PassedChecks
    /\ b64_content = <<>>
    /\ HasTarget(content)
    /\ Wrote
    /\ fs[icons_path].data = new_content
    /\ stdout = <<MsgSuccess>>

====
